---------------------------- MODULE Spec2Model ----------------------------
(***************************************************************************)
(* A model of the Veusz plugin Veusz-Load_UME_CA.py: the mask builder      *)
(* (create_I_change_dataset), the run segmenter (create_I_masked_plots),   *)
(* the step labelling loop and the batch loop of apply (CA and CV).        *)
(*                                                                         *)
(* Python values are modelled as follows.  A str is a sequence of          *)
(* one-character strings.  A numpy array is a sequence; Python's 0-based   *)
(* indices are kept in every value the code computes (start_index,         *)
(* end_index, i, ...) and turned into 1-based positions only where a       *)
(* sequence is read.  The floating-point quantities the code tests against *)
(* zero or for their sign are kept as exact integers or fractions.         *)
(***************************************************************************)
EXTENDS Integers, Sequences, FiniteSets, TLC

VARIABLES
    \* ---- the datasets of one experiment (the host's array store) ----
    I_range_dataset,     \* "<id>_I Range": the range-code series
    spread_size,         \* fields['spread_size']
    mask_state,          \* "none" | "stored" | "error": create_I_change_dataset
    mask_M,              \* "<id>_I Range_change_M": the stored mask (booleans)
    dataset_I_full,      \* "<id>_<I>/<unit>": the signal
    dataset_t_full,      \* "<id>_time/s": the time
    expr_state,          \* "none" | "stored": the 'Expression dataset' branch
    list_indices,        \* its (i_start, i_stop) pairs, one per expression dataset
    oned_state,          \* "none" | "stored" | "error": the '1D dataset' branch
    datasets_It_list,    \* its copied runs, each a sequence of <<I, t>> rows
    \* ---- the step labelling loop of apply (load_analysis) ----
    current_values,      \* "<id>_<I>/<unit>" as the loop reads it
    peaks_indices,       \* "<id>_sa_Index": the sample index of each step event
    electrode_diam,      \* fields['electrode_diam_um']
    step_pc,             \* "idle" | "loop" | "done" | "error"
    step_no,             \* the inner loop's i: the event being labelled
    steps_labels,        \* the labels added to graph_CA_steps: [id, step]
    steps_size_labels,   \* the labels added to graph_CA_steps_size: [id, step],
                         \* whether the text was set, the squared radius written
    \* ---- apply: the fields, the collaborators, the batch loop ----
    plugin,              \* "CA" | "CV": which plugin's apply runs
    filepath_start,      \* fields['filename_start']
    nb_files,            \* fields['nb_files']
    ref,                 \* fields['ref']
    dataset_masked_type, \* fields['dataset_masked_type']
    load_analysis,       \* fields['load_analysis'] (CA only)
    colormap,            \* what interface.GetColormap returns for this batch
    disk,                \* what the import of the i-th file of the batch finds
    doc_graph,           \* the document already holds graph_CA / graph_CV
    pc,                  \* where apply is
    err,                 \* what raised, once pc = "error"
    experiments_black,
    filepath_prefix,
    filename_root,
    filename_suffix,
    start_no,
    cvals,
    color_generator,     \* how many colors the generator has yielded
    loop_i,              \* the batch loop's i
    experiment_ids,      \* every experiment_id built, in order
    imported,            \* every path handed to ImportFilePlugin, in order
    curves               \* the xy widgets of the graph: [id, color], in order

dataVars == <<I_range_dataset, spread_size, mask_state, mask_M,
              dataset_I_full, dataset_t_full,
              expr_state, list_indices, oned_state, datasets_It_list>>

stepVars == <<current_values, peaks_indices, electrode_diam, step_pc, step_no,
              steps_labels, steps_size_labels>>

fieldVars == <<plugin, filepath_start, nb_files, ref, dataset_masked_type,
               load_analysis, colormap, disk>>

parsedVars == <<experiments_black, filepath_prefix, filename_root, filename_suffix,
                start_no>>

loopVars == <<doc_graph, pc, err, cvals, color_generator, loop_i, experiment_ids,
              imported, curves>>

applyVars == <<fieldVars, parsedVars, loopVars>>

vars == <<dataVars, stepVars, applyVars>>

----------------------------------------------------------------------------
(* Bounds of the model.                                                    *)

\* longest signal / time array of the segmenter specification
MaxLen == 4
\* how many entries the stored mask may have beyond the signal
MaxPad == 1
\* longest range-code series of the mask builder specification
MaxCodes == 5
\* largest window width tried by the mask builder specification
MaxSpread == 6

\* longest current array of the step labelling specification
MaxCurrent == 6
\* most step events of one experiment
MaxEvents == 2

\* most files of one batch
MaxFiles == 3
\* most entries of the exclusion list
MaxRef == 2

\* the values of the inputs
SignalValues == {0, 1}
RangeCodes == {1, 2, 3}
CurrentValues == {-1, 0, 1}
ElectrodeDiameters == {10}
SpreadSizes == {4}

----------------------------------------------------------------------------
(* Python and numpy primitives.                                            *)

Min(a, b) == IF a < b THEN a ELSE b
Max(a, b) == IF a > b THEN a ELSE b

\* one bound of a slice on a sequence of length n: negative counts from the
\* end, and both ends are clamped to 0..n
SliceBound(x, n) == IF x < 0 THEN Max(x + n, 0) ELSE Min(x, n)

\* s[a:b]
PySlice(s, a, b) ==
    LET lo == SliceBound(a, Len(s))
        hi == SliceBound(b, Len(s))
    IN  SubSeq(s, lo + 1, hi)

\* s[:n]
PyPrefix(s, n) == PySlice(s, 0, n)

\* all sequences over S whose length is in lo..hi
SeqsOf(S, lo, hi) == UNION {[1..n -> S] : n \in lo..hi}

\* numpy.diff
NumpyDiffNoSubtraction(a) == [k \in 1..(Len(a) - 1) |-> a[k + 1]]
NumpyDiff(a) == [k \in 1..(Len(a) - 1) |-> a[k + 1] - a[k]]

\* numpy.bartlett(M) for M >= 1, every value multiplied by the positive
\* number M-1 (by 1 when M = 1) so that it stays an integer:
\*   n = arange(1-M, M, 2);  w = where(n <= 0, 1 + n/(M-1), 1 - n/(M-1)).
\* The mask only tests the convolution against zero, which the scaling
\* leaves alone.
NumpyBartlett(M) ==
    IF M = 1 THEN <<1>>
    ELSE [k \in 1..M |->
            LET n == 1 - M + 2 * (k - 1)
            IN  IF n <= 0 THEN (M - 1) + n ELSE (M - 1) - n]

RECURSIVE ConvTerm(_, _, _, _)
\* sum over j in 1..n of a[j] * v[k-j+1], the terms inside v only
ConvTerm(a, v, k, n) ==
    IF n = 0 THEN 0
    ELSE ConvTerm(a, v, k, n - 1)
         + (IF k - n + 1 \in 1..Len(v) THEN a[n] * v[k - n + 1] ELSE 0)

\* numpy.convolve(a, v) (mode 'full'), both non-empty
NumpyConvolvePadded(a, v) ==
    [k \in 1..(Len(a) + Len(v)) |-> ConvTerm(a, v, k, Len(a))]
NumpyConvolve(a, v) ==
    [k \in 1..(Len(a) + Len(v) - 1) |-> ConvTerm(a, v, k, Len(a))]

----------------------------------------------------------------------------
(* create_I_change_dataset                                                 *)

\* numpy.convolve raises ValueError on an empty operand: a series of fewer
\* than two codes has an empty first difference, numpy.bartlett(M) is empty
\* for M < 1
ChangeDatasetRaises(I_range, spread) == Len(I_range) < 2 \/ spread < 1

I_change_dataset_spread(I_range, spread) ==
    NumpyConvolve(NumpyDiff(I_range), NumpyBartlett(spread))

\* numpy.logical_not(numpy.ma.make_mask(spread, shrink=False))
ChangeMaskNoNegation(I_range, spread) ==
    LET c == I_change_dataset_spread(I_range, spread)
    IN  [k \in 1..Len(c) |-> c[k] # 0]
ChangeMask(I_range, spread) ==
    LET c == I_change_dataset_spread(I_range, spread)
    IN  [k \in 1..Len(c) |-> c[k] = 0]

create_I_change_dataset ==
    /\ mask_state = "none"
    /\ IF ChangeDatasetRaises(I_range_dataset, spread_size)
       THEN /\ mask_state' = "error"
            /\ mask_M' = mask_M
       ELSE /\ mask_state' = "stored"
            /\ mask_M' = ChangeMask(I_range_dataset, spread_size)
    /\ UNCHANGED <<I_range_dataset, spread_size, dataset_I_full, dataset_t_full,
                   expr_state, list_indices, oned_state, datasets_It_list>>
    /\ UNCHANGED <<stepVars, applyVars>>

----------------------------------------------------------------------------
(* create_I_masked_plots                                                   *)

\* interface.GetData(mask)[0][:len(dataset_I_full)].astype(int)
MaskAsInt(b) == IF b THEN 1 ELSE 0
dataset_I_mask_full(mask, I_full) ==
    LET m == PyPrefix(mask, Len(I_full))
    IN  [k \in 1..Len(m) |-> MaskAsInt(m[k])]

\* ---- 'Expression dataset' ----
\* the loop's variables before the first iteration
ExprScanStart ==
    [start_index |-> -1, end_index |-> -1, prev_mask_value |-> 0,
     list_indices |-> <<>>]

\* one iteration of "for index, mask_value in enumerate(dataset_I_mask_full)"
ExprScanStepNoEdge(st, index, mask_value) ==
    IF mask_value - st.prev_mask_value > 0
    THEN [st EXCEPT !.start_index = index + 1, !.prev_mask_value = mask_value]
    ELSE IF mask_value - st.prev_mask_value < 0
    THEN [st EXCEPT !.end_index = index,
                    !.list_indices = Append(@, <<st.start_index, index>>),
                    !.prev_mask_value = mask_value]
    ELSE [st EXCEPT !.prev_mask_value = mask_value]
ExprScanStep(st, index, mask_value) ==
    IF mask_value - st.prev_mask_value > 0
    THEN [st EXCEPT !.start_index = index, !.prev_mask_value = mask_value]
    ELSE IF mask_value - st.prev_mask_value < 0
    THEN [st EXCEPT !.end_index = index,
                    !.list_indices = Append(@, <<st.start_index, index>>),
                    !.prev_mask_value = mask_value]
    ELSE [st EXCEPT !.prev_mask_value = mask_value]

RECURSIVE ExprScan(_, _, _)
\* the iterations index, index+1, ... of the loop, from the variables st
ExprScan(mask, index, st) ==
    IF index >= Len(mask) THEN st
    ELSE ExprScan(mask, index + 1, ExprScanStep(st, index, mask[index + 1]))

\* the list of (start, stop) after the loop and the closing "if"
ExprListIndicesShortClose(mask) ==
    LET st == ExprScan(mask, 0, ExprScanStart)
    IN  IF st.end_index < st.start_index
        THEN Append(st.list_indices, <<st.start_index, Len(mask) - 1>>)
        ELSE st.list_indices
ExprListIndices(mask) ==
    LET st == ExprScan(mask, 0, ExprScanStart)
    IN  IF st.end_index < st.start_index
        THEN Append(st.list_indices, <<st.start_index, Len(mask)>>)
        ELSE st.list_indices

\* what the expression "`name`[i_start:i_stop]" evaluates to
ExprDataset(full, index_tuple) == PySlice(full, index_tuple[1], index_tuple[2])

\* ---- '1D dataset' ----
\* numpy.column_stack raises ValueError unless the three arrays are equally long
ColumnStackRaises(I_full, t_full, mask) ==
    Len(I_full) # Len(t_full) \/ Len(I_full) # Len(mask)

OneDScanStart ==
    [dataset_It |-> <<>>, temp_dataset |-> TRUE, datasets_It_list |-> <<>>]

\* one iteration of "for data_slice in dataset_It_full"
OneDScanStepKeepBuffer(st, data_slice) ==
    IF data_slice[3] = 1
    THEN [st EXCEPT !.dataset_It = Append(@, <<data_slice[1], data_slice[2]>>),
                    !.temp_dataset = TRUE]
    ELSE IF st.temp_dataset
    THEN [st EXCEPT !.datasets_It_list =
                        IF Len(st.dataset_It) > 0 THEN Append(@, st.dataset_It) ELSE @,
                    !.temp_dataset = FALSE]
    ELSE st
OneDScanStep(st, data_slice) ==
    IF data_slice[3] = 1
    THEN [st EXCEPT !.dataset_It = Append(@, <<data_slice[1], data_slice[2]>>),
                    !.temp_dataset = TRUE]
    ELSE IF st.temp_dataset
    THEN [st EXCEPT !.datasets_It_list =
                        IF Len(st.dataset_It) > 0 THEN Append(@, st.dataset_It) ELSE @,
                    !.dataset_It = <<>>,
                    !.temp_dataset = FALSE]
    ELSE st

RECURSIVE OneDScan(_, _, _, _, _)
OneDScan(I_full, t_full, mask, index, st) ==
    IF index >= Len(I_full) THEN st
    ELSE OneDScan(I_full, t_full, mask, index + 1,
                  OneDScanStep(st, <<I_full[index + 1], t_full[index + 1],
                                     mask[index + 1]>>))

\* datasets_It_list after the loop and the closing "if"
OneDDatasets(I_full, t_full, mask) ==
    LET st == OneDScan(I_full, t_full, mask, 0, OneDScanStart)
    IN  IF Len(st.dataset_It) > 0
        THEN Append(st.datasets_It_list, st.dataset_It)
        ELSE st.datasets_It_list

\* dataset_It[:,0] and dataset_It[:,1]
Column(dataset_It, c) == [k \in 1..Len(dataset_It) |-> dataset_It[k][c]]

\* create_I_masked_plots(..., 'Expression dataset', ...)
create_I_masked_plots_expression ==
    /\ mask_state = "stored"
    /\ expr_state = "none"
    /\ expr_state' = "stored"
    /\ list_indices' = ExprListIndices(dataset_I_mask_full(mask_M, dataset_I_full))
    /\ UNCHANGED <<I_range_dataset, spread_size, mask_state, mask_M,
                   dataset_I_full, dataset_t_full, oned_state, datasets_It_list>>
    /\ UNCHANGED <<stepVars, applyVars>>

\* create_I_masked_plots(..., '1D dataset', ...)
create_I_masked_plots_1D ==
    /\ mask_state = "stored"
    /\ oned_state = "none"
    /\ LET mask == dataset_I_mask_full(mask_M, dataset_I_full)
       IN  IF ColumnStackRaises(dataset_I_full, dataset_t_full, mask)
           THEN /\ oned_state' = "error"
                /\ datasets_It_list' = datasets_It_list
           ELSE /\ oned_state' = "stored"
                /\ datasets_It_list' = OneDDatasets(dataset_I_full, dataset_t_full, mask)
    /\ UNCHANGED <<I_range_dataset, spread_size, mask_state, mask_M,
                   dataset_I_full, dataset_t_full, expr_state, list_indices>>
    /\ UNCHANGED <<stepVars, applyVars>>

----------------------------------------------------------------------------
(* apply: the step labelling loop (load_analysis).                         *)
(* A mean is kept as the fraction <<sum, count>>, count > 0.               *)

\* how many samples before and after the event the two means reach
SamplesBefore == 5
SamplesAfter == 5

RECURSIVE SumSeq(_)
SumSeq(s) == IF s = <<>> THEN 0 ELSE Head(s) + SumSeq(Tail(s))

\* numpy.mean of a non-empty array
NumpyMean(s) == <<SumSeq(s), Len(s)>>

\* numpy.mean(current_values[max(0, k-5) : k+1])
i_before(values, k) == NumpyMean(PySlice(values, Max(0, k - SamplesBefore), k + 1))

\* numpy.mean(current_values[k : min(len(current_values), k+5)])
i_after(values, k) == NumpyMean(PySlice(values, k, Min(Len(values), k + SamplesAfter)))

\* (i_before - i_after)/i_before as a fraction with a positive denominator;
\* i_before is not 0
Radicand(b, a) ==
    LET num == b[1] * a[2] - a[1] * b[2]
        den == b[1] * a[2]
    IN  IF den > 0 THEN <<num, den>> ELSE <<-num, -den>>

\* The numpy scalars do not raise on 0/0, x/0 or the square root of a
\* negative number: they give nan or inf, and int(particle_radius*2e3) then
\* raises ValueError (nan) or OverflowError (inf).
RadiusRaises(b, a) == b[1] = 0 \/ Radicand(b, a)[1] < 0

\* particle_radius = electrode_radius*numpy.sqrt((i_before - i_after)/i_before)
\* with electrode_radius = electrode_diam/2, kept by its square, a fraction:
\* the square root of a number >= 0 is >= 0, and 0 only at 0, so
\* particle_radius is 0 or positive as its square is
RadiusSquared(diam, b, a) ==
    LET r == Radicand(b, a)
    IN  <<diam * diam * r[1], 4 * r[2]>>

\* the experiment the batch loop is at; the empty name when the labelling
\* loop is looked at outside a batch
CurrentId ==
    IF experiment_ids = <<>> THEN <<>> ELSE experiment_ids[Len(experiment_ids)]

\* one iteration of "for i, time_height_index in enumerate(zip(...))"; what
\* int() raises is not caught: inside a batch it leaves apply
LabelStep ==
    /\ step_pc = "loop"
    /\ step_no < Len(peaks_indices)
    /\ LET k == peaks_indices[step_no + 1]
           b == i_before(current_values, k)
           a == i_after(current_values, k)
       IN  /\ steps_labels' = Append(steps_labels, [id |-> CurrentId, step |-> step_no])
           /\ IF RadiusRaises(b, a)
              THEN \* the label is added, int() raises before its text is set
                   /\ steps_size_labels' =
                        Append(steps_size_labels,
                               [id |-> CurrentId, step |-> step_no,
                                has_text |-> FALSE, radius_sq |-> <<0, 1>>])
                   /\ step_pc' = "error"
                   /\ step_no' = step_no
                   /\ pc' = IF pc = "steps" THEN "error" ELSE pc
                   /\ err' = IF pc = "steps" THEN "radius" ELSE err
              ELSE /\ steps_size_labels' =
                        Append(steps_size_labels,
                               [id |-> CurrentId, step |-> step_no,
                                has_text |-> TRUE,
                                radius_sq |-> RadiusSquared(electrode_diam, b, a)])
                   /\ step_no' = step_no + 1
                   /\ step_pc' = step_pc
                   /\ UNCHANGED <<pc, err>>
    /\ UNCHANGED <<current_values, peaks_indices, electrode_diam>>
    /\ UNCHANGED <<doc_graph, cvals, color_generator, loop_i, experiment_ids,
                   imported, curves>>
    /\ UNCHANGED <<dataVars, fieldVars, parsedVars>>

\* the two key labels set once the loop is over; inside a batch apply goes on
\* to the masked plots
FinishSteps ==
    /\ step_pc = "loop"
    /\ step_no = Len(peaks_indices)
    /\ step_pc' = "done"
    /\ pc' = IF pc = "steps" THEN "masked" ELSE pc
    /\ UNCHANGED <<current_values, peaks_indices, electrode_diam, step_no,
                   steps_labels, steps_size_labels>>
    /\ UNCHANGED <<doc_graph, err, cvals, color_generator, loop_i, experiment_ids,
                   imported, curves>>
    /\ UNCHANGED <<dataVars, fieldVars, parsedVars>>

----------------------------------------------------------------------------
(* Python str primitives.  A str is a sequence of one-character strings.   *)

DigitChars == <<"0", "1", "2", "3", "4", "5", "6", "7", "8", "9">>
IsDigit(c) == \E d \in 1..10 : DigitChars[d] = c
DigitValue(c) == (CHOOSE d \in 1..10 : DigitChars[d] = c) - 1

\* s[-1] of a non-empty list
PyLast(s) == s[Len(s)]

RECURSIVE PySplit(_, _)
\* s.split(sep)
PySplit(s, sep) ==
    IF \A k \in 1..Len(s) : s[k] # sep THEN <<s>>
    ELSE LET p == CHOOSE k \in 1..Len(s) :
                      s[k] = sep /\ \A j \in 1..(k - 1) : s[j] # sep
         IN  <<SubSeq(s, 1, p - 1)>> \o PySplit(SubSeq(s, p + 1, Len(s)), sep)

RECURSIVE PyJoin(_, _)
\* sep.join(parts)
PyJoin(parts, sep) ==
    IF parts = <<>> THEN <<>>
    ELSE IF Len(parts) = 1 THEN parts[1]
    ELSE parts[1] \o <<sep>> \o PyJoin(Tail(parts), sep)

RECURSIVE PyLStrip(_)
PyLStrip(s) == IF s # <<>> /\ s[1] = " " THEN PyLStrip(Tail(s)) ELSE s

RECURSIVE PyRStrip(_)
PyRStrip(s) ==
    IF s # <<>> /\ s[Len(s)] = " " THEN PyRStrip(SubSeq(s, 1, Len(s) - 1)) ELSE s

\* int(s) reads: optional white space, an optional sign, then decimal digits,
\* single underscores allowed between digits, then optional white space
PyIntBody(s) ==
    LET t == PyRStrip(PyLStrip(s))
    IN  IF t # <<>> /\ t[1] \in {"+", "-"} THEN Tail(t) ELSE t

PyIntNegative(s) ==
    LET t == PyRStrip(PyLStrip(s))
    IN  t # <<>> /\ t[1] = "-"

\* int(s) does not raise ValueError
PyIntValid(s) ==
    LET body == PyIntBody(s)
    IN  /\ body # <<>>
        /\ IsDigit(body[1]) /\ IsDigit(body[Len(body)])
        /\ \A k \in 1..Len(body) : IsDigit(body[k]) \/ body[k] = "_"
        /\ \A k \in 1..(Len(body) - 1) : ~(body[k] = "_" /\ body[k + 1] = "_")

RECURSIVE DigitsValue(_, _)
\* the value of the digits of body after the value acc of those already read
DigitsValue(body, acc) ==
    IF body = <<>> THEN acc
    ELSE IF body[1] = "_" THEN DigitsValue(Tail(body), acc)
    ELSE DigitsValue(Tail(body), 10 * acc + DigitValue(body[1]))

\* int(s), s valid
PyInt(s) ==
    IF PyIntNegative(s) THEN -DigitsValue(PyIntBody(s), 0)
    ELSE DigitsValue(PyIntBody(s), 0)

RECURSIVE DecimalDigits(_)
\* str(n), n >= 0
DecimalDigits(n) ==
    IF n < 10 THEN <<DigitChars[n + 1]>>
    ELSE DecimalDigits(n \div 10) \o <<DigitChars[(n % 10) + 1]>>

\* f"{n:02d}": the sign, then the digits, zero-padded to a width of 2
Format02dNoPadding(n) ==
    IF n < 0 THEN <<"-">> \o DecimalDigits(-n) ELSE DecimalDigits(n)
Format02d(n) ==
    LET text == IF n < 0 THEN <<"-">> \o DecimalDigits(-n) ELSE DecimalDigits(n)
    IN  IF Len(text) < 2 THEN <<"0">> \o text ELSE text

HexChars == <<"0", "1", "2", "3", "4", "5", "6", "7",
              "8", "9", "a", "b", "c", "d", "e", "f">>

\* "%02x" % n for 0 <= n <= 255, as a TLA+ string
Format02x(n) == HexChars[(n \div 16) + 1] \o HexChars[(n % 16) + 1]

----------------------------------------------------------------------------
(* apply: the fields are read and the first path is taken apart.           *)

\* list(filter(None, fields['ref']))
FilterNonEmpty(list) == SelectSeq(list, LAMBDA x : x # <<>>)

\* "/".join(filepath_start.split("/")[:-1]) + "/"
FilepathPrefix(path) == PyJoin(PySlice(PySplit(path, "/"), 0, -1), "/") \o <<"/">>

\* filepath_start.split('/')[-1]
FilenameSuffixStart(path) == PyLast(PySplit(path, "/"))

\* "_".join(filename_suffix_start.split("_")[:-1])
FilenameStart(path) ==
    PyJoin(PySlice(PySplit(FilenameSuffixStart(path), "_"), 0, -1), "_")

\* filename_start[:-2]
FilenameRoot(path) == PySlice(FilenameStart(path), 0, -2)

\* filename_suffix_start.split("_")[-1]
FilenameSuffix(path) == PyLast(PySplit(FilenameSuffixStart(path), "_"))

\* filename_start[-2:], the argument of int()
StartNoText(path) == PySlice(FilenameStart(path), -2, Len(FilenameStart(path)))

ParsePath ==
    /\ pc = "parse"
    /\ experiments_black' = FilterNonEmpty(ref)
    /\ filepath_prefix' = FilepathPrefix(filepath_start)
    /\ filename_root' = FilenameRoot(filepath_start)
    /\ filename_suffix' = FilenameSuffix(filepath_start)
    /\ IF PyIntValid(StartNoText(filepath_start))
       THEN /\ start_no' = PyInt(StartNoText(filepath_start))
            /\ pc' = "colormap"
            /\ err' = err
       ELSE /\ start_no' = start_no
            /\ pc' = "error"
            /\ err' = "int"
    /\ UNCHANGED <<doc_graph, cvals, color_generator, loop_i, experiment_ids,
                   imported, curves>>
    /\ UNCHANGED <<fieldVars, dataVars, stepVars>>

----------------------------------------------------------------------------
(* apply: the colormap is sampled.                                         *)

TransparentBlack == <<0, 0, 0, 0>>
OpaqueBlack == <<0, 0, 0, 255>>

\* nvals = max(1, nb_files-len(experiments_black))
ColormapNvals(n, black) == Max(1, n - Len(black))

\* the single-sample correction of cvals[0,:]
DegenerateFix(sampled, n, black) ==
    IF n - Len(black) = 1 /\ sampled[1] = TransparentBlack
    THEN [sampled EXCEPT ![1] = OpaqueBlack]
    ELSE sampled

SampleColormap ==
    /\ pc = "colormap"
    /\ cvals' = DegenerateFix(colormap, nb_files, experiments_black)
    /\ color_generator' = 0
    /\ pc' = "pages"
    /\ UNCHANGED <<doc_graph, err, loop_i, experiment_ids, imported, curves>>
    /\ UNCHANGED <<fieldVars, parsedVars, dataVars, stepVars>>

\* The pages and the graph are set up.  The CA plugin removes an old graph_CA
\* and adds a new one.  The CV plugin, finding an old graph_CV, asks for
\* page_CV.graph_CA, which the page does not hold: the lookup raises.
SetupPages ==
    /\ pc = "pages"
    /\ IF plugin = "CV" /\ doc_graph
       THEN /\ pc' = "error"
            /\ err' = "graph_CA"
            /\ UNCHANGED <<doc_graph, loop_i>>
       ELSE /\ doc_graph' = TRUE
            /\ loop_i' = 0
            /\ pc' = "import"
            /\ err' = err
    /\ UNCHANGED <<cvals, color_generator, experiment_ids, imported, curves>>
    /\ UNCHANGED <<fieldVars, parsedVars, dataVars, stepVars>>

----------------------------------------------------------------------------
(* apply: the batch loop.                                                  *)

\* experiment_id = filename_root + f"{i + start_no:02d}"
ExperimentId(root, no, n) == root \o Format02d(n + no)

\* filepath_prefix + experiment_id + "_" + filename_suffix
ExperimentPath(prefix, id, suffix) == prefix \o id \o <<"_">> \o suffix

\* The file is imported and, in the CA plugin, its mask is built.  With
\* load_analysis the "_sa.csv" file is imported next, inside try/except: the
\* datasets "<id>_sa_..." exist afterwards exactly when that file was found
\* (disk[i].sa_present), and nothing is raised when it was not.
ImportExperiment ==
    /\ pc = "import"
    /\ LET id == ExperimentId(filename_root, start_no, loop_i)
           file == disk[loop_i + 1]
       IN  /\ experiment_ids' = Append(experiment_ids, id)
           /\ imported' = Append(imported,
                                 ExperimentPath(filepath_prefix, id, filename_suffix))
           /\ expr_state' = "none"
           /\ list_indices' = <<>>
           /\ oned_state' = "none"
           /\ datasets_It_list' = <<>>
           /\ IF ~file.present
              THEN \* ImportFilePlugin raises: no dataset of this experiment
                   /\ pc' = "error"
                   /\ err' = "import"
                   /\ I_range_dataset' = <<>>
                   /\ dataset_I_full' = <<>>
                   /\ dataset_t_full' = <<>>
                   /\ mask_state' = "none"
                   /\ mask_M' = <<>>
              ELSE /\ I_range_dataset' = file.range
                   /\ dataset_I_full' = file.I
                   /\ dataset_t_full' = file.t
                   /\ IF plugin = "CV"
                      THEN /\ mask_state' = "none"
                           /\ mask_M' = <<>>
                           /\ pc' = "color"
                           /\ err' = err
                      ELSE IF ChangeDatasetRaises(file.range, spread_size)
                      THEN /\ mask_state' = "error"
                           /\ mask_M' = <<>>
                           /\ pc' = "error"
                           /\ err' = "convolve"
                      ELSE /\ mask_state' = "stored"
                           /\ mask_M' = ChangeMask(file.range, spread_size)
                           /\ pc' = "color"
                           /\ err' = err
    /\ UNCHANGED <<doc_graph, cvals, color_generator, loop_i, curves, spread_size>>
    /\ UNCHANGED <<fieldVars, parsedVars, stepVars>>

\* experiment_id in experiments_black
IsExcludedNever(id, black) == FALSE
IsExcluded(id, black) == \E k \in 1..Len(black) : black[k] = id

\* the colour string of a sampled colour
ColorString(color) ==
    IF color[4] = 255
    THEN "#" \o Format02x(color[1]) \o Format02x(color[2]) \o Format02x(color[3])
    ELSE "#" \o Format02x(color[1]) \o Format02x(color[2]) \o Format02x(color[3])
             \o Format02x(color[4])

\* the colour of every experiment left out of the colormap
ExcludedColor == "#000000ff"

\* the colour of an xy widget whose colour was never set
DefaultColor == "auto"

\* after this experiment: the next one, or the end of apply
LoopAdvance ==
    /\ loop_i' = loop_i + 1
    /\ pc' = IF loop_i + 1 < nb_files THEN "import" ELSE "done"

\* where the CA plugin goes once the colour is set: "if load_steps_analysis"
AfterColor == IF load_analysis THEN "steps_read" ELSE "masked"

\* The curve of the experiment is added and given its colour.
AssignColor ==
    /\ pc = "color"
    /\ LET id == experiment_ids[Len(experiment_ids)]
       IN  IF IsExcluded(id, experiments_black)
           THEN /\ curves' = Append(curves, [id |-> id, color |-> ExcludedColor])
                /\ color_generator' = color_generator
                /\ err' = err
                /\ IF plugin = "CA"
                   THEN pc' = AfterColor /\ loop_i' = loop_i
                   ELSE LoopAdvance
           ELSE IF color_generator >= Len(cvals)
           THEN \* next(color_generator) raises StopIteration
                /\ curves' = Append(curves, [id |-> id, color |-> DefaultColor])
                /\ color_generator' = color_generator
                /\ pc' = "error"
                /\ err' = "StopIteration"
                /\ loop_i' = loop_i
           ELSE /\ curves' = Append(curves,
                        [id |-> id, color |-> ColorString(cvals[color_generator + 1])])
                /\ color_generator' = color_generator + 1
                /\ err' = err
                /\ IF plugin = "CA"
                   THEN pc' = AfterColor /\ loop_i' = loop_i
                   ELSE LoopAdvance
    /\ UNCHANGED <<doc_graph, cvals, experiment_ids, imported>>
    /\ UNCHANGED <<fieldVars, parsedVars, dataVars, stepVars>>

\* The arrays of the step analysis are read.  interface.GetData raises on a
\* dataset the document does not hold, which is the case of "<id>_sa_Time/s"
\* when the import of the "_sa.csv" file failed.
ReadStepData ==
    /\ pc = "steps_read"
    /\ IF ~disk[loop_i + 1].sa_present
       THEN /\ pc' = "error"
            /\ err' = "GetData"
            /\ UNCHANGED <<current_values, peaks_indices, step_pc, step_no>>
       ELSE /\ current_values' = dataset_I_full
            /\ peaks_indices' = disk[loop_i + 1].sa_Index
            /\ step_no' = 0
            /\ step_pc' = "loop"
            /\ pc' = "steps"
            /\ err' = err
    /\ UNCHANGED <<electrode_diam, steps_labels, steps_size_labels>>
    /\ UNCHANGED <<doc_graph, cvals, color_generator, loop_i, experiment_ids,
                   imported, curves>>
    /\ UNCHANGED <<dataVars, fieldVars, parsedVars>>

\* create_I_masked_plots is called with fields['dataset_masked_type'].
MaskedPlots ==
    /\ pc = "masked"
    /\ LET mask == dataset_I_mask_full(mask_M, dataset_I_full)
       IN  IF dataset_masked_type = "Expression dataset"
           THEN /\ expr_state' = "stored"
                /\ list_indices' = ExprListIndices(mask)
                /\ UNCHANGED <<oned_state, datasets_It_list, err>>
                /\ LoopAdvance
           ELSE IF dataset_masked_type = "1D dataset"
           THEN IF ColumnStackRaises(dataset_I_full, dataset_t_full, mask)
                THEN /\ oned_state' = "error"
                     /\ pc' = "error"
                     /\ err' = "column_stack"
                     /\ UNCHANGED <<expr_state, list_indices, datasets_It_list, loop_i>>
                ELSE /\ oned_state' = "stored"
                     /\ datasets_It_list' =
                            OneDDatasets(dataset_I_full, dataset_t_full, mask)
                     /\ UNCHANGED <<expr_state, list_indices, err>>
                     /\ LoopAdvance
           ELSE /\ UNCHANGED <<expr_state, list_indices, oned_state,
                               datasets_It_list, err>>
                /\ LoopAdvance
    /\ UNCHANGED <<I_range_dataset, spread_size, mask_state, mask_M,
                   dataset_I_full, dataset_t_full>>
    /\ UNCHANGED <<doc_graph, cvals, color_generator, experiment_ids, imported, curves>>
    /\ UNCHANGED <<fieldVars, parsedVars, stepVars>>

----------------------------------------------------------------------------
(* Initial states.                                                         *)

\* no step analysis in progress
StepsIdle ==
    /\ current_values = <<>>
    /\ peaks_indices = <<>>
    /\ electrode_diam = 0
    /\ step_pc = "idle"
    /\ step_no = 0
    /\ steps_labels = <<>>
    /\ steps_size_labels = <<>>

\* no dataset of an experiment loaded
DataIdle ==
    /\ I_range_dataset = <<>>
    /\ spread_size = 0
    /\ mask_state = "none"
    /\ mask_M = <<>>
    /\ dataset_I_full = <<>>
    /\ dataset_t_full = <<>>
    /\ expr_state = "none"
    /\ list_indices = <<>>
    /\ oned_state = "none"
    /\ datasets_It_list = <<>>

\* apply is not running
ApplyIdle ==
    /\ plugin = "CA"
    /\ filepath_start = <<>>
    /\ nb_files = 1
    /\ ref = <<>>
    /\ dataset_masked_type = "No masked data"
    /\ load_analysis = FALSE
    /\ colormap = <<>>
    /\ disk = <<>>
    /\ doc_graph = FALSE
    /\ pc = "idle"
    /\ err = "none"
    /\ experiments_black = <<>>
    /\ filepath_prefix = <<>>
    /\ filename_root = <<>>
    /\ filename_suffix = <<>>
    /\ start_no = 0
    /\ cvals = <<>>
    /\ color_generator = 0
    /\ loop_i = 0
    /\ experiment_ids = <<>>
    /\ imported = <<>>
    /\ curves = <<>>

\* apply is about to run: nothing parsed, sampled, imported or drawn yet
ApplyStart ==
    /\ pc = "parse"
    /\ err = "none"
    /\ experiments_black = <<>>
    /\ filepath_prefix = <<>>
    /\ filename_root = <<>>
    /\ filename_suffix = <<>>
    /\ start_no = 0
    /\ cvals = <<>>
    /\ color_generator = 0
    /\ loop_i = 0
    /\ experiment_ids = <<>>
    /\ imported = <<>>
    /\ curves = <<>>

\* no dataset yet, the window width of the field
DataStart ==
    /\ I_range_dataset = <<>>
    /\ spread_size \in SpreadSizes
    /\ mask_state = "none"
    /\ mask_M = <<>>
    /\ dataset_I_full = <<>>
    /\ dataset_t_full = <<>>
    /\ expr_state = "none"
    /\ list_indices = <<>>
    /\ oned_state = "none"
    /\ datasets_It_list = <<>>

\* the first paths tried: a directory part, then a root, the two characters
\* where the index is read, and a tail
Directories == {<<>>, <<"d", "/">>, <<"d", "_", "e", "/">>}
Roots == {<<>>, <<"r">>, <<"r", "_", "c">>}
IndexChars == {"0", "7", "9", "-", "+", " ", "a"}
IndexTexts == [1..2 -> IndexChars]
Tails == {<<>>, <<"_", "C">>, <<"_", "C", ".", "x">>}
Paths == {d \o r \o x \o t : d \in Directories, r \in Roots, x \in IndexTexts, t \in Tails}

\* the colours the colormap may return
RedOpaque == <<255, 0, 0, 255>>
BlueHalf == <<0, 0, 255, 128>>
Palette == {TransparentBlack, RedOpaque, BlueHalf}

\* the files an import may find: a constant range code, a range change after
\* the first sample, a single sample, no file
FileConstant == [present |-> TRUE, I |-> <<1, 1, 0>>, t |-> <<0, 1, 2>>,
                 range |-> <<2, 2, 2>>, sa_present |-> FALSE, sa_Index |-> <<>>]
FileChange == [present |-> TRUE, I |-> <<1, 0, 1, 1>>, t |-> <<0, 1, 2, 3>>,
               range |-> <<1, 2, 2, 2>>, sa_present |-> FALSE, sa_Index |-> <<>>]
FileOneSample == [present |-> TRUE, I |-> <<1>>, t |-> <<0>>, range |-> <<1>>,
                  sa_present |-> FALSE, sa_Index |-> <<>>]
FileMissing == [present |-> FALSE, I |-> <<>>, t |-> <<>>, range |-> <<>>,
                sa_present |-> FALSE, sa_Index |-> <<>>]
Files == {FileConstant, FileChange, FileOneSample, FileMissing}

\* the files of a batch with step analysis: two events whose radius is
\* defined, no "_sa.csv" file, a first event whose i_before is 0
FileSteps == [present |-> TRUE, I |-> <<1, 1, 0, 0>>, t |-> <<0, 1, 2, 3>>,
              range |-> <<2, 2, 2, 2>>, sa_present |-> TRUE, sa_Index |-> <<1, 2>>]
FileNoSa == [present |-> TRUE, I |-> <<1, 1, 0, 0>>, t |-> <<0, 1, 2, 3>>,
             range |-> <<2, 2, 2, 2>>, sa_present |-> FALSE, sa_Index |-> <<>>]
FileBadStep == [present |-> TRUE, I |-> <<0, 1, 1, 0>>, t |-> <<0, 1, 2, 3>>,
                range |-> <<2, 2, 2, 2>>, sa_present |-> TRUE, sa_Index |-> <<0, 1>>]
StepFiles == {FileSteps, FileNoSa, FileBadStep}

MaskedTypes == {"No masked data", "Expression dataset", "1D dataset"}

\* a well-formed first path and the entries tried in the exclusion list: the
\* empty string, two experiments of the batch, a stranger
PlainPath == <<"d", "/", "r", "0", "7", "_", "C">>
RefEntries == {<<>>, <<"r", "0", "7">>, <<"r", "0", "8">>, <<"z">>}

\* any first path; nothing excluded, every file found
InitPaths ==
    /\ plugin \in {"CA", "CV"}
    /\ filepath_start \in Paths
    /\ nb_files \in 1..MaxFiles
    /\ ref = <<>>
    /\ dataset_masked_type = "Expression dataset"
    /\ load_analysis = FALSE
    /\ colormap = [k \in 1..nb_files |-> RedOpaque]
    /\ disk = [k \in 1..nb_files |-> FileConstant]
    /\ doc_graph = FALSE

\* any exclusion list and any sampled colours; every file found
InitColors ==
    /\ plugin \in {"CA", "CV"}
    /\ filepath_start = PlainPath
    /\ nb_files \in 1..MaxFiles
    /\ ref \in SeqsOf(RefEntries, 0, MaxRef)
    /\ dataset_masked_type = "No masked data"
    /\ load_analysis = FALSE
    /\ colormap \in [1..ColormapNvals(nb_files, FilterNonEmpty(ref)) -> Palette]
    /\ disk = [k \in 1..nb_files |-> FileConstant]
    /\ doc_graph = FALSE

\* any files, any kind of masked dataset, a new or an old document
InitBatch ==
    /\ plugin \in {"CA", "CV"}
    /\ filepath_start = PlainPath
    /\ nb_files \in 1..MaxFiles
    /\ ref = <<>>
    /\ dataset_masked_type \in MaskedTypes
    /\ load_analysis = FALSE
    /\ colormap = [k \in 1..nb_files |-> RedOpaque]
    /\ disk \in [1..nb_files -> Files]
    /\ doc_graph \in BOOLEAN

\* step analysis on, in the CA plugin; every file found, some without their
\* "_sa.csv" file, some with an event the radius is not defined for
InitSteps ==
    /\ plugin = "CA"
    /\ filepath_start = PlainPath
    /\ nb_files \in 1..MaxFiles
    /\ ref = <<>>
    /\ dataset_masked_type = "Expression dataset"
    /\ load_analysis = TRUE
    /\ colormap = [k \in 1..nb_files |-> RedOpaque]
    /\ disk \in [1..nb_files -> StepFiles]
    /\ doc_graph = FALSE

\* no step labelled yet, the electrode diameter of the field
StepsStart ==
    /\ current_values = <<>>
    /\ peaks_indices = <<>>
    /\ electrode_diam \in ElectrodeDiameters
    /\ step_pc = "idle"
    /\ step_no = 0
    /\ steps_labels = <<>>
    /\ steps_size_labels = <<>>

Init ==
    /\ InitPaths \/ InitColors \/ InitBatch \/ InitSteps
    /\ ApplyStart
    /\ DataStart
    /\ StepsStart

Next ==
    \/ ParsePath
    \/ SampleColormap
    \/ SetupPages
    \/ ImportExperiment
    \/ AssignColor
    \/ ReadStepData
    \/ LabelStep
    \/ FinishSteps
    \/ MaskedPlots

Spec == Init /\ [][Next]_vars

\* The labelling loop on its own: any current array, any events inside it.
InitStep ==
    /\ DataIdle
    /\ ApplyIdle
    /\ current_values \in SeqsOf(CurrentValues, 1, MaxCurrent)
    /\ peaks_indices \in SeqsOf(0..(Len(current_values) - 1), 1, MaxEvents)
    /\ electrode_diam \in ElectrodeDiameters
    /\ step_pc = "loop"
    /\ step_no = 0
    /\ steps_labels = <<>>
    /\ steps_size_labels = <<>>

NextStep ==
    \/ LabelStep
    \/ FinishSteps

SpecStep == InitStep /\ [][NextStep]_vars

----------------------------------------------------------------------------
(* The segmenter on its own: any stored mask, any signal, a time array     *)
(* of the same length or one sample shorter or longer.                     *)

\* sample times t0, t0 + dt, ...: strictly increasing
TimeArrays(n) == {[k \in 1..n |-> t0 + (k - 1) * dt] : t0 \in {0, 1}, dt \in {1, 2}}

\* the lengths of the time array tried with a signal of n samples
TimeLengths(n) == {m \in (n - 1)..(n + 1) : m >= 0}

InitSeg ==
    /\ I_range_dataset = <<>>
    /\ spread_size = 0
    /\ mask_state = "stored"
    /\ \E n \in 0..MaxLen :
        /\ dataset_I_full \in [1..n -> SignalValues]
        /\ dataset_t_full \in UNION {TimeArrays(m) : m \in TimeLengths(n)}
        /\ mask_M \in SeqsOf(BOOLEAN, 0, n + MaxPad)
    /\ expr_state = "none"
    /\ list_indices = <<>>
    /\ oned_state = "none"
    /\ datasets_It_list = <<>>
    /\ StepsIdle
    /\ ApplyIdle

NextSeg ==
    \/ create_I_masked_plots_expression
    \/ create_I_masked_plots_1D

SpecSeg == InitSeg /\ [][NextSeg]_vars

----------------------------------------------------------------------------
(* The mask builder followed by the segmenter: any range-code series, any  *)
(* window width, a signal and a time array as long as the series.          *)

InitMask ==
    /\ I_range_dataset \in SeqsOf(RangeCodes, 1, MaxCodes)
    /\ spread_size \in 1..MaxSpread
    /\ mask_state = "none"
    /\ mask_M = <<>>
    /\ dataset_I_full = [k \in 1..Len(I_range_dataset) |-> 0]
    /\ dataset_t_full = [k \in 1..Len(I_range_dataset) |-> k - 1]
    /\ expr_state = "none"
    /\ list_indices = <<>>
    /\ oned_state = "none"
    /\ datasets_It_list = <<>>
    /\ StepsIdle
    /\ ApplyIdle

NextMask ==
    \/ create_I_change_dataset
    \/ create_I_masked_plots_expression
    \/ create_I_masked_plots_1D

SpecMask == InitMask /\ [][NextMask]_vars

----------------------------------------------------------------------------
(* Properties of the run segmenter (SpecSeg).                              *)

\* the indices i < L at which the stored mask, cut to the signal's length L,
\* is true
TrueIndices ==
    {i \in 0..(Len(dataset_I_full) - 1) : i < Len(mask_M) /\ mask_M[i + 1]}

\* the indices of an index range (start, stop)
RangeIndices(index_tuple) == index_tuple[1]..(index_tuple[2] - 1)

\* the index of the sample taken at time t (the times are strictly increasing)
IndexAtTime(t) == CHOOSE i \in 0..(Len(dataset_t_full) - 1) : dataset_t_full[i + 1] = t

\* the indices of the rows of a copied run
RunIndices(dataset_It) == {IndexAtTime(dataset_It[k][2]) : k \in 1..Len(dataset_It)}

RECURSIVE Flatten(_)
\* the rows of all copied runs, in the order of the list
Flatten(runs) == IF runs = <<>> THEN <<>> ELSE Head(runs) \o Flatten(Tail(runs))

ExprRunsCover ==
    /\ \A j, k \in 1..Len(list_indices) :
          j < k => /\ RangeIndices(list_indices[j]) \cap RangeIndices(list_indices[k]) = {}
                   /\ list_indices[j][1] < list_indices[k][1]
    /\ UNION {RangeIndices(list_indices[k]) : k \in 1..Len(list_indices)} = TrueIndices

OneDRunsCover ==
    LET rows == Flatten(datasets_It_list)
    IN  /\ \A k \in 1..Len(rows) : \E i \in 1..Len(dataset_t_full) :
              rows[k] = <<dataset_I_full[i], dataset_t_full[i]>>
        /\ \A j, k \in 1..Len(rows) : j < k => rows[j][2] < rows[k][2]
        /\ UNION {RunIndices(datasets_It_list[k]) : k \in 1..Len(datasets_It_list)}
              = TrueIndices

\* C1: in both modes the runs are pairwise disjoint, in ascending index order,
\* and the union of their index ranges is exactly the set of indices i < L at
\* which the mask cut to L is true.
C1_RunsCoverTrueIndices ==
    /\ expr_state = "stored" => ExprRunsCover
    /\ oned_state = "stored" => OneDRunsCover

\* both modes have run on a mask longer than the signal whose cut-off entry is
\* true, and each produced at least two runs
C1_Witness ==
    /\ expr_state = "stored" /\ oned_state = "stored"
    /\ Len(list_indices) >= 2 /\ Len(datasets_It_list) >= 2
    /\ Len(mask_M) > Len(dataset_I_full)
    /\ mask_M[Len(mask_M)]

\* C2: the two modes agree: as many copied runs as index ranges, and the k-th
\* copied run holds signal[start_k:stop_k] and time[start_k:stop_k].
C2_ModesAgree ==
    (expr_state = "stored" /\ oned_state = "stored") =>
        /\ Len(datasets_It_list) = Len(list_indices)
        /\ \A k \in 1..Len(list_indices) :
              /\ Column(datasets_It_list[k], 1) = ExprDataset(dataset_I_full, list_indices[k])
              /\ Column(datasets_It_list[k], 2) = ExprDataset(dataset_t_full, list_indices[k])

\* both modes have run on a mask that starts with false and ends with true
\* inside the signal, with two runs
C2_Witness ==
    /\ expr_state = "stored" /\ oned_state = "stored"
    /\ Len(dataset_I_full) >= 4 /\ Len(mask_M) >= Len(dataset_I_full)
    /\ ~mask_M[1] /\ mask_M[Len(dataset_I_full)]
    /\ Len(list_indices) = 2
    /\ dataset_I_full[2] # dataset_I_full[Len(dataset_I_full)]

----------------------------------------------------------------------------
(* Properties of the mask builder (SpecMask).                              *)

\* the range code changes between samples i and i+1 (0-based)
CodeChangesAt(i) == I_range_dataset[i + 2] # I_range_dataset[i + 1]

ChangeIndices == {i \in 0..(Len(I_range_dataset) - 2) : CodeChangesAt(i)}

\* the stored mask as the segmenter reads it: cut to the signal, as 0 / 1
TrimmedMask == dataset_I_mask_full(mask_M, dataset_I_full)

\* the 0-based indices at which the trimmed mask is false
FalseIndices == {k \in 0..(Len(TrimmedMask) - 1) : TrimmedMask[k + 1] = 0}

\* C3: with spreadSize >= 4, every change at i leaves the mask false on the
\* whole interior i+1 .. i+spreadSize-2 of the window placed at i, whatever
\* other changes lie nearby.
C3_NoHolesInBand ==
    (mask_state = "stored" /\ spread_size >= 4) =>
        \A i \in ChangeIndices :
            \A k \in (i + 1)..(i + spread_size - 2) : ~mask_M[k + 1]

\* C4: one change, at first-difference index p, and spreadSize >= 4: the
\* trimmed mask is false on one contiguous band of at most spreadSize+1
\* indices, all at or after p, and true everywhere else.
C4_SingleChangeBand ==
    (mask_state = "stored" /\ spread_size >= 4 /\ Cardinality(ChangeIndices) = 1) =>
        LET p == CHOOSE i \in ChangeIndices : TRUE
        IN  /\ Len(TrimmedMask) = Len(I_range_dataset)
            /\ FalseIndices # {}
            /\ \A a, b \in FalseIndices : \A c \in a..b : c \in FalseIndices
            /\ Cardinality(FalseIndices) <= spread_size + 1
            /\ \A k \in FalseIndices : k >= p

\* a series of five codes that changes once, at first-difference index 2, a
\* window 4 wide, the mask stored: the band is 3..4
C4_Witness ==
    /\ mask_state = "stored"
    /\ spread_size = 4
    /\ I_range_dataset = <<1, 1, 1, 2, 2>>
    /\ FalseIndices = {3, 4}

\* C5: a constant series of at least two codes, any spreadSize >= 1: the
\* stored mask cut to the signal's length is true at every index.
C5_ConstantSeriesAllTrue ==
    (/\ mask_state = "stored"
     /\ Len(I_range_dataset) >= 2
     /\ ChangeIndices = {}) =>
        \A k \in 1..Len(TrimmedMask) : TrimmedMask[k] = 1

\* a constant series of four codes, a window of 5, the mask stored and at
\* least as long as the signal
C5_Witness ==
    /\ mask_state = "stored"
    /\ I_range_dataset = <<2, 2, 2, 2>>
    /\ spread_size = 5
    /\ Len(TrimmedMask) = 4

----------------------------------------------------------------------------
(* Properties of the step labelling loop (SpecStep).                       *)

\* fractions with positive denominators
FracLess(x, y) == x[1] * y[2] < y[1] * x[2]
FracEqual(x, y) == x[1] * y[2] = y[1] * x[2]

\* the two-sided averages of the event a size label belongs to
CurrentBefore(label) == i_before(current_values, peaks_indices[label.step + 1])
CurrentAfter(label) == i_after(current_values, peaks_indices[label.step + 1])

\* C8: an event with currentBefore = currentAfter (not 0) gets radius 0, and
\* an event with currentBefore < currentAfter raises: the text of its size
\* label is never written, whatever the sign of the currents.
C8_SignGuard ==
    \A n \in 1..Len(steps_size_labels) :
        LET label == steps_size_labels[n]
            b == CurrentBefore(label)
            a == CurrentAfter(label)
        IN  /\ (FracEqual(b, a) /\ b[1] # 0) =>
                  (label.has_text /\ label.radius_sq[1] = 0)
            /\ FracLess(b, a) => ~label.has_text

----------------------------------------------------------------------------
(* Properties of the sequence resolver (Spec).                             *)

\* the last position of character c in s, 0 when s does not hold it
LastIndexOf(s, c) ==
    IF \A k \in 1..Len(s) : s[k] # c THEN 0
    ELSE CHOOSE k \in 1..Len(s) : s[k] = c /\ \A j \in (k + 1)..Len(s) : s[j] # c

\* where the file name starts, and its last '_' (0 when it has none)
LastSlash == LastIndexOf(filepath_start, "/")
LastUnderscore ==
    IF LastIndexOf(filepath_start, "_") > LastSlash
    THEN LastIndexOf(filepath_start, "_") ELSE 0

\* the file name has a '_'-delimited suffix token
HasSuffixToken == LastUnderscore > 0

\* the two characters just before the last '_' are decimal digits
HasTwoIndexDigits ==
    /\ LastUnderscore - 2 > LastSlash
    /\ IsDigit(filepath_start[LastUnderscore - 2])
    /\ IsDigit(filepath_start[LastUnderscore - 1])

\* the path is dir/<root><NN>_<suffix>
WellFormedPath == LastSlash > 0 /\ HasSuffixToken /\ HasTwoIndexDigits

\* NN
StartIndex ==
    10 * DigitValue(filepath_start[LastUnderscore - 2])
       + DigitValue(filepath_start[LastUnderscore - 1])

\* n in 0..99 written with two digits
TwoDigits(n) == <<DigitChars[(n \div 10) + 1], DigitChars[(n % 10) + 1]>>

\* <root> followed by the two-digit index
ExpectedId(n) ==
    SubSeq(filepath_start, LastSlash + 1, LastUnderscore - 3) \o TwoDigits(n)

\* the first path with NN replaced by the two-digit index
ExpectedPath(n) ==
    SubSeq(filepath_start, 1, LastUnderscore - 3) \o TwoDigits(n)
        \o SubSeq(filepath_start, LastUnderscore, Len(filepath_start))

\* C6: from dir/<root><NN>_<suffix> and n files with NN+n-1 <= 99 the batch
\* loop builds, for i = 0..n-1 in this order, the identifier <root> followed
\* by NN+i on two digits and the first path with NN replaced by it; parsing
\* does not fail, and a batch that ends has built all n.
C6_SequenceResolved ==
    (WellFormedPath /\ StartIndex + nb_files - 1 <= 99) =>
        /\ err # "int"
        /\ Len(experiment_ids) <= nb_files
        /\ Len(imported) = Len(experiment_ids)
        /\ \A k \in 1..Len(experiment_ids) :
              /\ experiment_ids[k] = ExpectedId(StartIndex + k - 1)
              /\ imported[k] = ExpectedPath(StartIndex + k - 1)
        /\ pc = "done" => Len(experiment_ids) = nb_files

\* the CV plugin has finished a batch of three from d_e/r_c07_C.x
C6_Witness ==
    /\ pc = "done"
    /\ plugin = "CV"
    /\ filepath_start = <<"d", "_", "e", "/", "r", "_", "c", "0", "7", "_", "C", ".", "x">>
    /\ experiment_ids = << <<"r", "_", "c", "0", "7">>, <<"r", "_", "c", "0", "8">>,
                           <<"r", "_", "c", "0", "9">> >>
    /\ imported[1] = filepath_start
    /\ Len(imported) = 3

\* C10: when the file name has no '_'-delimited suffix token, or the two
\* characters just before its last '_' are not both decimal digits, parsing
\* fails: no identifier or path is built and no file is imported.
C10_MalformedPathRejected ==
    (~(HasSuffixToken /\ HasTwoIndexDigits) /\ pc # "parse") =>
        /\ pc = "error" /\ err = "int"
        /\ experiment_ids = <<>>
        /\ imported = <<>>

----------------------------------------------------------------------------
(* Properties of the colour assignment (Spec).                             *)

\* the identifier is in the exclusion list
InExclusionList(id) == \E k \in 1..Len(ref) : ref[k] = id

\* how many of the first n experiments are not in the exclusion list
NotExcludedAmong(n) ==
    Cardinality({j \in 1..n : ~InExclusionList(experiment_ids[j])})

\* the entries of the exclusion list that are not empty
ExclusionCount == Cardinality({k \in 1..Len(ref) : ref[k] # <<>>})

\* C7: m = max(1, n - |excluded|) colours are sampled; the k-th experiment
\* (from 0, in ascending index order) that is not in the exclusion list gets
\* the k-th colour, written '#rrggbb' when its alpha is 255 and '#rrggbbaa'
\* otherwise; every experiment in the list gets '#000000ff' and uses up no
\* sampled colour.
C7_ColorsInOrder ==
    /\ cvals # <<>> => Len(cvals) = Max(1, nb_files - ExclusionCount)
    /\ \A k \in 1..Len(curves) :
          /\ curves[k].id = experiment_ids[k]
          /\ IF InExclusionList(curves[k].id)
             THEN curves[k].color = ExcludedColor
             ELSE NotExcludedAmong(k - 1) < Len(cvals) =>
                    curves[k].color = ColorString(cvals[NotExcludedAmong(k - 1) + 1])

\* a batch of three has ended, the second experiment excluded, the other two
\* coloured with the two sampled colours, one of them not opaque
C7_Witness ==
    /\ pc = "done"
    /\ nb_files = 3
    /\ ref = << <<"r", "0", "8">> >>
    /\ cvals = <<BlueHalf, RedOpaque>>
    /\ Len(curves) = 3
    /\ curves[1].color = "#0000ff80"
    /\ curves[2].color = "#000000ff"
    /\ curves[3].color = "#ff0000"

\* C9: whenever one colour is sampled, a curve coloured from the colormap is
\* opaque black if the sampled colour is fully transparent black, and has the
\* sampled colour otherwise.
C9_DegenerateCaseFixed ==
    Len(colormap) = 1 =>
        \A k \in 1..Len(curves) :
            (~InExclusionList(curves[k].id) /\ curves[k].color # DefaultColor) =>
                curves[k].color =
                    ColorString(IF colormap[1] = TransparentBlack
                                THEN OpaqueBlack ELSE colormap[1])

----------------------------------------------------------------------------
(* Properties of the index formatting (Spec).                              *)

\* <root> of a well-formed first path
PathRoot == SubSeq(filepath_start, LastSlash + 1, LastUnderscore - 3)

\* the identifier is <root> followed by exactly two decimal digits
EndsInTwoDigits(id) ==
    /\ Len(id) = Len(PathRoot) + 2
    /\ SubSeq(id, 1, Len(PathRoot)) = PathRoot
    /\ IsDigit(id[Len(id) - 1]) /\ IsDigit(id[Len(id)])

\* C11: from a well-formed first path, every identifier built ends in exactly
\* two decimal digits, and a batch whose last index NN+n-1 exceeds 99 does not
\* run to its end.
C11_IndexOverflowRejected ==
    WellFormedPath =>
        /\ \A k \in 1..Len(experiment_ids) : EndsInTwoDigits(experiment_ids[k])
        /\ StartIndex + nb_files - 1 > 99 => pc # "done"

----------------------------------------------------------------------------
(* Properties of the segmenter's input check (SpecSeg).                    *)

\* the signal and the time differ in length, or the mask has fewer entries
\* than the signal
LengthMismatch ==
    \/ Len(dataset_I_full) # Len(dataset_t_full)
    \/ Len(mask_M) < Len(dataset_I_full)

\* C12: when the signal and the time differ in length or the mask is shorter
\* than the signal, neither mode stores a derived array.
C12_LengthChecked ==
    LengthMismatch => (expr_state # "stored" /\ oned_state # "stored")

----------------------------------------------------------------------------
(* Properties of the step analysis inside the batch (Spec).                *)

\* the k-th experiment of the batch has no "_sa.csv" file
AuxFileMissing(k) == load_analysis /\ disk[k].present /\ ~disk[k].sa_present

\* the labels of graph_CA_steps that belong to an experiment
LabelsOf(id) == {n \in 1..Len(steps_labels) : steps_labels[n].id = id}

\* C13: a missing "_sa.csv" file never makes apply raise: the experiment gets
\* no step label, and a batch whose files are all found, with events whose
\* radius is defined, is never stopped by an error.
C13_MissingAuxNotFatal ==
    /\ err # "GetData"
    /\ \A k \in 1..Len(experiment_ids) :
          AuxFileMissing(k) => LabelsOf(experiment_ids[k]) = {}
    /\ (load_analysis /\ \A k \in 1..nb_files : disk[k] \in {FileSteps, FileNoSa})
          => pc # "error"

\* C14: a numeric edge case of one event (i_before = 0, or a negative
\* radicand) never makes apply raise; when a batch with step analysis ends,
\* every event of every experiment has its label.
C14_EventErrorConfined ==
    /\ err # "radius"
    /\ (pc = "done" /\ load_analysis) =>
          \A k \in 1..nb_files :
              Cardinality(LabelsOf(experiment_ids[k])) = Len(disk[k].sa_Index)

----------------------------------------------------------------------------
(* Properties of an aborted batch (Spec).                                  *)

\* the curves of graph_CA / graph_CV that belong to an experiment
CurvesOf(id) == {k \in 1..Len(curves) : curves[k].id = id}

\* C15: when apply has stopped on an error inside the batch loop, nothing
\* made for the experiment it stopped at is left: no imported array, no mask,
\* no run, no curve, no label.
C15_NoPartialState ==
    (pc = "error" /\ experiment_ids # <<>>) =>
        /\ I_range_dataset = <<>> /\ dataset_I_full = <<>> /\ dataset_t_full = <<>>
        /\ mask_state # "stored"
        /\ expr_state # "stored" /\ oned_state # "stored"
        /\ CurvesOf(CurrentId) = {}
        /\ LabelsOf(CurrentId) = {}

----------------------------------------------------------------------------
(* Properties of the colour cursor (Spec).                                 *)

\* C16: whatever the exclusion list, the generator has advanced once per
\* experiment coloured so far that is not in the list, it has never advanced
\* past the sampled colours, and next() has never found it exhausted.
C16_CursorNeverRunsOut ==
    /\ err # "StopIteration"
    /\ color_generator <= Len(cvals)
    /\ color_generator = NotExcludedAmong(Len(curves))

----------------------------------------------------------------------------
(* Properties of the mask's length (SpecMask).                             *)

\* C17, as first stated: the stored mask of a series of L codes has exactly
\* L + spreadSize entries.
C17_MaskLengthPlusSpread ==
    mask_state = "stored" => Len(mask_M) = Len(I_range_dataset) + spread_size

\* C17: the stored mask of a series of L >= 2 codes has exactly
\* L + spreadSize - 2 entries (L - 1 first differences, spreadSize - 1 more
\* from the full convolution); cut to the signal's length it has L entries
\* when spreadSize >= 2 and L - 1 when spreadSize = 1.
C17_MaskLength ==
    mask_state = "stored" =>
        /\ Len(mask_M) = Len(I_range_dataset) + spread_size - 2
        /\ spread_size >= 2 => Len(TrimmedMask) = Len(dataset_I_full)
        /\ spread_size = 1 => Len(TrimmedMask) = Len(dataset_I_full) - 1

\* a series of five codes and a window 4 wide: seven entries stored, five
\* left by the cut
C17_Witness ==
    /\ mask_state = "stored"
    /\ spread_size = 4
    /\ Len(I_range_dataset) = 5
    /\ Len(dataset_I_full) = 5
    /\ Len(mask_M) = 7
    /\ Len(TrimmedMask) = 5

----------------------------------------------------------------------------
(* Properties of each run (SpecSeg).                                       *)

\* the mask cut to the signal is true at index i; false when i is out of range
MaskTrueAt(i) == i \in TrueIndices

\* [start, stop) is not empty, true throughout, and cannot be extended
MaximalRun(start, stop) ==
    /\ stop > start
    /\ \A i \in start..(stop - 1) : MaskTrueAt(i)
    /\ ~MaskTrueAt(start - 1)
    /\ ~MaskTrueAt(stop)

\* the smallest and the largest index of the rows of a copied run
FirstIndex(dataset_It) == IndexAtTime(dataset_It[1][2])
LastIndex(dataset_It) == IndexAtTime(dataset_It[Len(dataset_It)][2])

ExprRunsMaximal ==
    /\ \A k \in 1..Len(list_indices) :
          MaximalRun(list_indices[k][1], list_indices[k][2])
    /\ \A k \in 1..(Len(list_indices) - 1) :
          list_indices[k][2] < list_indices[k + 1][1]
    /\ TrueIndices = {} => list_indices = <<>>

OneDRunsMaximal ==
    /\ \A k \in 1..Len(datasets_It_list) :
          LET run == datasets_It_list[k]
          IN  /\ Len(run) > 0
              /\ LastIndex(run) - FirstIndex(run) + 1 = Len(run)
              /\ MaximalRun(FirstIndex(run), LastIndex(run) + 1)
    /\ \A k \in 1..(Len(datasets_It_list) - 1) :
          LastIndex(datasets_It_list[k]) + 1 < FirstIndex(datasets_It_list[k + 1])
    /\ TrueIndices = {} => datasets_It_list = <<>>

\* C18: in both modes every run is non-empty, the mask is true at each of its
\* indices and false or out of range just before and just after it, two
\* consecutive runs have a false entry between them, and a mask with no true
\* entry gives no run.
C18_RunsMaximal ==
    /\ expr_state = "stored" => ExprRunsMaximal
    /\ oned_state = "stored" => OneDRunsMaximal

\* both modes have cut the mask true, false, true, true into the runs [0, 1)
\* and [2, 4)
C18_Witness ==
    /\ expr_state = "stored" /\ oned_state = "stored"
    /\ mask_M = <<TRUE, FALSE, TRUE, TRUE>>
    /\ list_indices = << <<0, 1>>, <<2, 4>> >>
    /\ Len(datasets_It_list) = 2
    /\ Len(datasets_It_list[1]) = 1 /\ Len(datasets_It_list[2]) = 2

=============================================================================
